---- MODULE Spec2Model ----
(***************************************************************************)
(* A model of PriceRobot (src/robot.py): the price extractor, the          *)
(* analyzer, the per-source fetch+parse coroutine, the search              *)
(* orchestrator, the background runner and the Flask handlers that share   *)
(* the task registry results_store.                                        *)
(*                                                                         *)
(* Conventions.  A Python str is a sequence of one-character strings; the  *)
(* currency words of the extractor's patterns are single tokens ("toman",  *)
(* "rial", "dirham").  A float amount is an exact integer; an amount in    *)
(* the reference currency is counted in tenths of a toman, so that the     *)
(* rial rate 0.1 is the integer 1.  A mean or a median is the exact        *)
(* fraction [num, den].                                                    *)
(***************************************************************************)
EXTENDS Integers, Sequences, FiniteSets, TLC

VARIABLES
    now,            \* int(time.time()): the wall clock in whole seconds
    results_store,  \* the module-level dict task_id -> entry
    threads,        \* the background threads started by index(), in start order
    files,          \* the paths that exist under BASE_DIR
    call,           \* a direct call of a pure method: [fn, arg]
    ret             \* what that call returned

vars == <<now, results_store, threads, files, call, ret>>

None == [kind |-> "None"]

----
(* Bounds of the model *)

\* the clock value in the initial state
StartTime == 9
\* how many seconds the clock may advance
MaxTicks == 1
\* how many POSTs of the form are made
MaxSubmits == 2
\* the longest batch of terms searched with failing sources
MaxTerms == 2
\* the longest text handed to PriceExtractor.extract
MaxTextLen == 4
\* the longest price list handed to Analyzer.run
MaxProducts == 3

----
(* Sequences and strings *)

Min(a, b) == IF a <= b THEN a ELSE b

\* s[:n]
Take(s, n) == SubSeq(s, 1, Min(n, Len(s)))

\* all sequences over S of length at most n
SeqsUpTo(S, n) == UNION {[1..k -> S] : k \in 0..n}

RECURSIVE Concat(_)
\* [p for res in results for p in res]
Concat(ss) == IF ss = <<>> THEN <<>> ELSE Head(ss) \o Concat(Tail(ss))

RECURSIVE SumSeq(_)
SumSeq(s) == IF s = <<>> THEN 0 ELSE Head(s) + SumSeq(Tail(s))

RECURSIVE Replace(_, _, _)
\* str.replace(old, new) for a one-character old; new is a string
Replace(s, old, new) ==
    IF s = <<>> THEN <<>>
    ELSE (IF Head(s) = old THEN new ELSE <<Head(s)>>) \o Replace(Tail(s), old, new)

DigitChar == <<"0", "1", "2", "3", "4", "5", "6", "7", "8", "9">>

RECURSIVE IntToStr(_)
\* str(n) for n >= 0
IntToStr(n) ==
    IF n < 10 THEN <<DigitChar[n + 1]>>
    ELSE IntToStr(n \div 10) \o <<DigitChar[(n % 10) + 1]>>

----
(* PriceExtractor *)

\* the twenty source characters of str.maketrans, by code point
PersianDigits == <<"U+06F0", "U+06F1", "U+06F2", "U+06F3", "U+06F4",
                   "U+06F5", "U+06F6", "U+06F7", "U+06F8", "U+06F9">>
ArabicDigits  == <<"U+0660", "U+0661", "U+0662", "U+0663", "U+0664",
                   "U+0665", "U+0666", "U+0667", "U+0668", "U+0669">>

\* one character through the translation table
TranslateChar(c) ==
    IF \E d \in 1..10 : PersianDigits[d] = c
    THEN DigitChar[CHOOSE d \in 1..10 : PersianDigits[d] = c]
    ELSE IF \E d \in 1..10 : ArabicDigits[d] = c
    THEN DigitChar[CHOOSE d \in 1..10 : ArabicDigits[d] = c]
    ELSE c

\* text.translate(...)
Translate(text) == [k \in 1..Len(text) |-> TranslateChar(text[k])]

\* \d on the translated text
IsDigit(c) == \E d \in 1..10 : DigitChar[d] = c
\* [\d,]
IsNumChar(c) == IsDigit(c) \/ c = ","
\* \s
IsSpace(c) == c \in {" ", "\n", "\t"}

\* a variant of patterns in which the dollar pattern is declared first
patterns_DollarFirst ==
    << [curr |-> "dollar", shape |-> "prefix", word |-> "$"],
       [curr |-> "toman",  shape |-> "suffix", word |-> "toman"],
       [curr |-> "rial",   shape |-> "suffix", word |-> "rial"],
       [curr |-> "dirham", shape |-> "suffix", word |-> "dirham"] >>

\* the dict patterns, in insertion order; a suffix pattern is
\* ([\d,]+)\s?WORD and a prefix pattern is WORD([\d,]+)
patterns == << [curr |-> "toman",  shape |-> "suffix", word |-> "toman"],
               [curr |-> "rial",   shape |-> "suffix", word |-> "rial"],
               [curr |-> "dollar", shape |-> "prefix", word |-> "$"],
               [curr |-> "dirham", shape |-> "suffix", word |-> "dirham"] >>

\* the dict rates, in tenths of a toman per unit
rates == [rial |-> 1, dollar |-> 550000, dirham |-> 150000, toman |-> 10]

\* text[i..j-1] is a non-empty run of [\d,]
IsNumRun(text, i, j) ==
    /\ i < j
    /\ j <= Len(text) + 1
    /\ \A k \in i..(j - 1) : IsNumChar(text[k])

\* \s?WORD matches at position j
WordFollows(text, j, word) ==
    \/ j <= Len(text) /\ text[j] = word
    \/ j + 1 <= Len(text) /\ IsSpace(text[j]) /\ text[j + 1] = word

\* the ends j of group 1 for the matches of pattern p whose group starts at i
GroupEnds(text, p, i) ==
    IF p.shape = "suffix"
    THEN {j \in (i + 1)..(Len(text) + 1) :
            IsNumRun(text, i, j) /\ WordFollows(text, j, p.word)}
    ELSE {j \in (i + 1)..(Len(text) + 1) :
            i > 1 /\ text[i - 1] = p.word /\ IsNumRun(text, i, j)}

\* the starts of group 1 over all matches of p
GroupStarts(text, p) == {i \in 1..Len(text) : GroupEnds(text, p, i) # {}}

\* re.search(p, text): None, or group 1 of the leftmost match, the greedy
\* quantifier taking the longest run
Search(text, p) ==
    IF GroupStarts(text, p) = {} THEN None
    ELSE LET i == CHOOSE a \in GroupStarts(text, p) :
                      \A b \in GroupStarts(text, p) : a <= b
             j == CHOOSE a \in GroupEnds(text, p, i) :
                      \A b \in GroupEnds(text, p, i) : b <= a
         IN [kind |-> "Match", start |-> i, group1 |-> SubSeq(text, i, j - 1)]

RECURSIVE DigitsValue(_)
\* the value of a non-empty string of ASCII digits
DigitsValue(ds) ==
    IF ds = <<>> THEN 0
    ELSE 10 * DigitsValue(SubSeq(ds, 1, Len(ds) - 1))
         + ((CHOOSE d \in 1..10 : DigitChar[d] = ds[Len(ds)]) - 1)

\* float(s) for s over [\d,] with the commas already removed
ToFloat(s) ==
    IF s = <<>> THEN [kind |-> "raise", exc |-> "ValueError"]
    ELSE [kind |-> "float", value |-> DigitsValue(s)]

RECURSIVE ExtractFrom(_, _)
\* the loop over patterns from index n on
ExtractFrom(text, n) ==
    IF n > Len(patterns) THEN None
    ELSE LET m == Search(text, patterns[n]) IN
         IF m = None THEN ExtractFrom(text, n + 1)
         ELSE LET num == ToFloat(Replace(m.group1, ",", <<>>)) IN
              IF num.kind = "raise" THEN num
              ELSE [kind |-> "reading", original |-> num.value,
                    currency |-> patterns[n].curr,
                    toman |-> num.value * rates[patterns[n].curr]]

\* PriceExtractor.extract
extract(text) == ExtractFrom(Translate(text), 1)

----
(* Analyzer *)

\* the k-th smallest of the prices, duplicates counted
KthSmallest(prices, k) ==
    CHOOSE v \in {prices[x] : x \in 1..Len(prices)} :
        /\ Cardinality({x \in 1..Len(prices) : prices[x] < v}) < k
        /\ k <= Cardinality({x \in 1..Len(prices) : prices[x] <= v})

\* Series.median(): the middle value, or the mean of the two middle values
Median(prices) ==
    IF Len(prices) % 2 = 1
    THEN [num |-> KthSmallest(prices, (Len(prices) + 1) \div 2), den |-> 1]
    ELSE [num |-> KthSmallest(prices, Len(prices) \div 2)
                  + KthSmallest(prices, (Len(prices) \div 2) + 1),
          den |-> 2]

\* a variant of AnalyzerRun that reports zeros for an empty price column
AnalyzerRun_ZerosWhenEmpty(prices) ==
    IF prices = <<>>
    THEN [total |-> 0, min |-> 0, max |-> 0,
          mean |-> [num |-> 0, den |-> 1], median |-> [num |-> 0, den |-> 1]]
    ELSE [total  |-> Len(prices),
          min    |-> CHOOSE a \in {prices[k] : k \in 1..Len(prices)} :
                        \A k \in 1..Len(prices) : a <= prices[k],
          max    |-> CHOOSE a \in {prices[k] : k \in 1..Len(prices)} :
                        \A k \in 1..Len(prices) : a >= prices[k],
          mean   |-> [num |-> SumSeq(prices), den |-> Len(prices)],
          median |-> Median(prices)]

\* Analyzer.run on the price column of the products
AnalyzerRun(prices) ==
    IF prices = <<>> THEN [total |-> 0]
    ELSE [total  |-> Len(prices),
          min    |-> CHOOSE a \in {prices[k] : k \in 1..Len(prices)} :
                        \A k \in 1..Len(prices) : a <= prices[k],
          max    |-> CHOOSE a \in {prices[k] : k \in 1..Len(prices)} :
                        \A k \in 1..Len(prices) : a >= prices[k],
          mean   |-> [num |-> SumSeq(prices), den |-> Len(prices)],
          median |-> Median(prices)]

\* Analyzer.run: the analysis of the column df["price"]
run(products) ==
    CHOOSE analysis \in {AnalyzerRun(prices) :
                            prices \in {[k \in 1..Len(products) |-> products[k].price]}} :
        TRUE

----
(* WebRobot._fetch_one *)

\* the cap of the slice [:5] on the selected cards
MaxCards == 5
\* the cap of the slice [:100] on a product's name
MaxNameLen == 100

\* the three f-strings of WebRobot.search, as characters and multi-character
\* tokens, the "/" separators being characters of their own
UrlsOf(term) ==
    << <<"https:", "/", "/", "torob.ir", "/", "search", "/", "?query=">>
           \o Replace(term, " ", <<"%20">>),
       <<"https:", "/", "/", "divar.ir", "/", "s", "/", "tehran?q=">>
           \o Replace(term, " ", <<"%20">>),
       <<"https:", "/", "/", "www.amazon.com", "/", "s?k=">>
           \o Replace(term, " ", <<"+">>) >>

\* how many source sites a term is searched on
NumSources == Len(UrlsOf(<<>>))

RECURSIVE Split(_, _)
\* str.split(sep) for a one-character sep
Split(s, sep) ==
    IF \A k \in 1..Len(s) : s[k] # sep THEN <<s>>
    ELSE LET k == CHOOSE a \in 1..Len(s) :
                      s[a] = sep /\ \A b \in 1..(a - 1) : s[b] # sep
         IN <<SubSeq(s, 1, k - 1)>> \o Split(SubSeq(s, k + 1, Len(s)), sep)

\* the dict appended for a card with a price
Product(text, price_data, url) ==
    [name |-> Take(text, MaxNameLen), price |-> price_data.toman,
     original_currency |-> price_data.currency,
     website |-> Split(url, "/")[3], country |-> "Iran", url |-> url]

RECURSIVE ParseCards(_, _)
\* the for loop over the cards: the products, or the exception extract raised
ParseCards(cards, url) ==
    IF cards = <<>> THEN [kind |-> "list", products |-> <<>>]
    ELSE LET price_data == extract(Head(cards)) IN
         IF price_data.kind = "raise" THEN price_data
         ELSE LET rest == ParseCards(Tail(cards), url) IN
              IF rest.kind = "raise" THEN rest
              ELSE IF price_data = None THEN rest
              ELSE [kind |-> "list",
                    products |-> <<Product(Head(cards), price_data, url)>>
                                     \o rest.products]

\* WebRobot._fetch_one(url, term), given what scraper.scrape(url) did:
\* [kind |-> "raise", exc] or [kind |-> "text", status, html], html being the
\* flattened texts of the cards the selector finds, in document order.
\* The result is the list returned, with whether log.error was called.
fetch_one(url, scraped) ==
    IF scraped.kind = "raise"
    THEN [kind |-> "done", products |-> <<>>, error |-> TRUE]
    ELSE LET parsed == ParseCards(Take(scraped.html, MaxCards), url) IN
         IF parsed.kind = "raise"
         THEN [kind |-> "done", products |-> <<>>, error |-> TRUE]
         ELSE [kind |-> "done", products |-> parsed.products, error |-> FALSE]

Pending == [kind |-> "pending"]

----
(* The background thread: run_in_thread and WebRobot.search *)

ThreadIds == 1..Len(threads)

\* the thread started for (terms, task_id)
NewThread(terms, task_id) ==
    [task_id |-> task_id, terms |-> terms, pc |-> "loop", i |-> 1,
     tasks |-> <<>>, all_results |-> <<>>, report |-> None, out |-> None]

\* the dict report of WebRobot.search
BuildReport(all_results) ==
    [summary |-> [total |-> SumSeq([k \in 1..Len(all_results) |->
                                       Len(all_results[k].products)])],
     results |-> all_results]

\* the path Notifier.save_excel writes at clock value t
ExcelPath(t) == <<"pricebot", "/", "price_report_">> \o IntToStr(t) \o <<".xlsx">>

\* a variant of DoneEntry that leaves the path out
DoneEntry_NoPath(excel_path) == [status |-> "done"]

\* the entry written on success
DoneEntry(excel_path) == [excel_path |-> excel_path, status |-> "done"]
\* the entry written in the except branch
FailedEntry(reason) == [status |-> "failed", reason |-> reason]
\* the entry written by index()
ProcessingEntry == [status |-> "processing"]

\* a variant of Put that updates the dict already stored under the key in
\* place: the keys the new value does not have keep their old values
Put_UpdatingInPlace(store, key, value) ==
    [k \in DOMAIN store \cup {key} |->
        IF k # key THEN store[k]
        ELSE IF key \notin DOMAIN store THEN value
        ELSE [f \in DOMAIN store[key] \cup DOMAIN value |->
                 IF f \in DOMAIN value THEN value[f] ELSE store[key][f]]]

\* a variant of Put that rebinds the store to a dict of the one item
Put_DroppingOthers(store, key, value) == [k \in {key} |-> value]

\* dict item assignment
Put(store, key, value) ==
    [k \in DOMAIN store \cup {key} |-> IF k = key THEN value ELSE store[k]]

\* the head of the for loop: the three coroutines of term i are created and
\* handed to asyncio.gather
BeginTerm(t) ==
    /\ t \in ThreadIds
    /\ threads[t].pc = "loop"
    /\ threads[t].i <= Len(threads[t].terms)
    /\ threads' = [threads EXCEPT ![t].pc = "gather",
                                  ![t].tasks = [s \in 1..NumSources |-> Pending]]
    /\ UNCHANGED <<now, results_store, files, call, ret>>

\* one coroutine _fetch_one of the current term runs to its return
FetchOne(t, s, scraped) ==
    /\ t \in ThreadIds
    /\ threads[t].pc = "gather"
    /\ s \in 1..NumSources
    /\ threads[t].tasks[s] = Pending
    /\ threads' = [threads EXCEPT ![t].tasks[s] =
                       fetch_one(UrlsOf(threads[t].terms[threads[t].i])[s], scraped)]
    /\ UNCHANGED <<now, results_store, files, call, ret>>

\* a variant of TermResult in which the first failed source ends the term:
\* only the products of the sources before it are kept
TermResult_StopAtFailure(term, results) ==
    CHOOSE term_result \in
        {[search_term |-> term, products |-> products, analysis |-> run(products)] :
            products \in {Concat([s \in 1..Len(results) |->
                              IF \E f \in 1..s : results[f].error
                              THEN <<>> ELSE results[s].products])}} :
        TRUE

\* a variant of TermResult that takes the results last source first
TermResult_LastSourceFirst(term, results) ==
    CHOOSE term_result \in
        {[search_term |-> term, products |-> products, analysis |-> run(products)] :
            products \in {Concat([s \in 1..Len(results) |->
                              results[Len(results) + 1 - s].products])}} :
        TRUE

\* the entry of all_results for a term, from the results of gather
TermResult(term, results) ==
    CHOOSE term_result \in
        {[search_term |-> term, products |-> products, analysis |-> run(products)] :
            products \in {Concat([s \in 1..Len(results) |-> results[s].products])}} :
        TRUE

\* a variant of AppendResult that inserts at the front
AppendResult_AtFront(all_results, term_result) == <<term_result>> \o all_results

\* all_results.append(...)
AppendResult(all_results, term_result) == Append(all_results, term_result)

\* a variant of Gather that goes on as soon as one fetch has ended, the
\* fetches still running counting as empty
Gather_FirstCompleted(t) ==
    /\ t \in ThreadIds
    /\ threads[t].pc = "gather"
    /\ \E s \in 1..NumSources : threads[t].tasks[s] # Pending
    /\ \E all \in {AppendResult(threads[t].all_results,
                                TermResult(threads[t].terms[threads[t].i],
                                           [s \in 1..NumSources |->
                                               IF threads[t].tasks[s] = Pending
                                               THEN [kind |-> "done", products |-> <<>>,
                                                     error |-> FALSE]
                                               ELSE threads[t].tasks[s]]))} :
           threads' = [threads EXCEPT ![t] =
               IF threads[t].i = Len(threads[t].terms)
               THEN [threads[t] EXCEPT !.pc = "export", !.tasks = <<>>,
                                       !.i = threads[t].i + 1,
                                       !.all_results = all, !.report = BuildReport(all)]
               ELSE [threads[t] EXCEPT !.pc = "loop", !.tasks = <<>>,
                                       !.i = threads[t].i + 1,
                                       !.all_results = all]]
    /\ UNCHANGED <<now, results_store, files, call, ret>>

\* gather returns: the term's products are analysed and appended; after the
\* last term the report is built
Gather(t) ==
    /\ t \in ThreadIds
    /\ threads[t].pc = "gather"
    /\ \A s \in 1..NumSources : threads[t].tasks[s] # Pending
    /\ \E all \in {AppendResult(threads[t].all_results,
                                TermResult(threads[t].terms[threads[t].i],
                                           threads[t].tasks))} :
           threads' = [threads EXCEPT ![t] =
               IF threads[t].i = Len(threads[t].terms)
               THEN [threads[t] EXCEPT !.pc = "export", !.tasks = <<>>,
                                       !.i = threads[t].i + 1,
                                       !.all_results = all, !.report = BuildReport(all)]
               ELSE [threads[t] EXCEPT !.pc = "loop", !.tasks = <<>>,
                                       !.i = threads[t].i + 1,
                                       !.all_results = all]]
    /\ UNCHANGED <<now, results_store, files, call, ret>>

\* Notifier.save_excel and the return of search.  raises: the export raised.
SaveExcel(t, raises) ==
    /\ t \in ThreadIds
    /\ threads[t].pc = "export"
    /\ IF raises
       THEN /\ threads' = [threads EXCEPT ![t].pc = "raised", ![t].all_results = <<>>,
                                          ![t].report = None,
                                          ![t].out = [kind |-> "exc", reason |-> "ExportError"]]
            /\ UNCHANGED files
       ELSE /\ threads' = [threads EXCEPT ![t].pc = "returned", ![t].all_results = <<>>,
                                          ![t].report = None,
                                          ![t].out = [kind |-> "path", path |-> ExcelPath(now)]]
            /\ files' = files \cup {ExcelPath(now)}
    /\ UNCHANGED <<now, results_store, call, ret>>

\* the entry run_in_thread writes for a thread whose search has ended
FinalEntry(th) ==
    IF th.pc = "returned" THEN DoneEntry(th.out.path) ELSE FailedEntry(th.out.reason)

\* a variant of StoreResult without the except branch: a search that raised
\* ends the thread and nothing is written
StoreResult_NoExcept(t) ==
    /\ t \in ThreadIds
    /\ threads[t].pc \in {"returned", "raised"}
    /\ IF threads[t].pc = "returned"
       THEN results_store' = Put(results_store, threads[t].task_id, FinalEntry(threads[t]))
       ELSE UNCHANGED results_store
    /\ threads' = [threads EXCEPT ![t].pc = "finished", ![t].out = None]
    /\ UNCHANGED <<now, files, call, ret>>

\* run_in_thread's write to results_store, in the try or in the except branch
StoreResult(t) ==
    /\ t \in ThreadIds
    /\ threads[t].pc \in {"returned", "raised"}
    /\ results_store' = Put(results_store, threads[t].task_id, FinalEntry(threads[t]))
    /\ threads' = [threads EXCEPT ![t].pc = "finished", ![t].out = None]
    /\ UNCHANGED <<now, files, call, ret>>

----
(* The Flask handlers *)

\* the cap of the slice [:10] on the terms
MaxBatch == 10

RECURSIVE LStrip(_)
LStrip(s) == IF s # <<>> /\ IsSpace(Head(s)) THEN LStrip(Tail(s)) ELSE s

RECURSIVE RStrip(_)
RStrip(s) ==
    IF s # <<>> /\ IsSpace(s[Len(s)]) THEN RStrip(SubSeq(s, 1, Len(s) - 1)) ELSE s

\* str.strip()
Strip(s) == RStrip(LStrip(s))

RECURSIVE StripNonBlank(_)
\* [t.strip() for t in lines if t.strip()]
StripNonBlank(lines) ==
    IF lines = <<>> THEN <<>>
    ELSE (IF Strip(Head(lines)) # <<>> THEN <<Strip(Head(lines))>> ELSE <<>>)
         \o StripNonBlank(Tail(lines))

\* a variant of TermsOf without the slice [:10]
TermsOf_NoCap(raw) == StripNonBlank(Split(raw, "\n"))

\* the list terms of index(), from the stripped form field
TermsOf(raw) == Take(StripNonBlank(Split(raw, "\n")), MaxBatch)

\* what index() returns for a POST with the form field terms = form_terms
index(form_terms) ==
    IF Strip(form_terms) = <<>>
    THEN [route |-> "index", code |-> 302,
          body |-> [location |-> "index", flash |-> "warning"]]
    ELSE [route |-> "index", code |-> 302,
          body |-> [location |-> "result", task_id |-> IntToStr(now)]]

\* index(), POST with the form field terms = form_terms
Index(form_terms) ==
    LET raw == Strip(form_terms)
        task_id == IntToStr(now)
    IN IF raw = <<>>
       THEN UNCHANGED <<now, results_store, threads, files, call, ret>>
       ELSE /\ results_store' = Put(results_store, task_id, ProcessingEntry)
            /\ threads' = Append(threads, NewThread(TermsOf(raw), task_id))
            /\ UNCHANGED <<now, files, call, ret>>

\* what result(task_id) returns; the rendering of the templates is not modelled
result(task_id) ==
    IF task_id \notin DOMAIN results_store
    THEN [route |-> "result", code |-> 200,
          body |-> [page |-> "WAITING_HTML", task_id |-> task_id]]
    ELSE LET report == results_store[task_id] IN
         IF report.status = "failed"
         THEN [route |-> "result", code |-> 500, body |-> [error |-> report.reason]]
         ELSE [route |-> "result", code |-> 200,
               body |-> [page |-> "RESULT_HTML", report |-> report]]

\* what api_status(task_id) returns
api_status(task_id) ==
    IF task_id \notin DOMAIN results_store
    THEN [route |-> "api_status", code |-> 404, body |-> [status |-> "not_found"]]
    ELSE [route |-> "api_status", code |-> 200,
          body |-> [status |-> "done", report |-> results_store[task_id]]]

\* a variant of api_download without the exists() test: the file is sent
\* whenever the entry names a path
api_download_NoExistsCheck(task_id) ==
    IF task_id \notin DOMAIN results_store
    THEN [route |-> "api_download", code |-> 404, body |-> [text |-> "Not found"]]
    ELSE LET entry == results_store[task_id] IN
         IF /\ "excel_path" \in DOMAIN entry
            /\ entry.excel_path # <<>>
         THEN [route |-> "api_download", code |-> 200,
               body |-> [file |-> entry.excel_path]]
         ELSE [route |-> "api_download", code |-> 202, body |-> [text |-> "File not ready"]]

\* what api_download(task_id) returns; path is entry.get("excel_path")
api_download(task_id) ==
    IF task_id \notin DOMAIN results_store
    THEN [route |-> "api_download", code |-> 404, body |-> [text |-> "Not found"]]
    ELSE LET entry == results_store[task_id] IN
         IF /\ "excel_path" \in DOMAIN entry
            /\ entry.excel_path # <<>>
            /\ entry.excel_path \in files
         THEN [route |-> "api_download", code |-> 200,
               body |-> [file |-> entry.excel_path]]
         ELSE [route |-> "api_download", code |-> 202, body |-> [text |-> "File not ready"]]

\* GET /result/<task_id>: the handler only reads
Result(task_id) ==
    /\ result(task_id).code \in {200, 500}
    /\ UNCHANGED <<now, results_store, threads, files, call, ret>>

\* a variant of ApiStatus that reads the entry with setdefault: a poll of an
\* unknown id leaves a processing entry behind
ApiStatus_SettingDefault(task_id) ==
    /\ api_status(task_id).code \in {200, 404}
    /\ results_store' = IF task_id \in DOMAIN results_store THEN results_store
                        ELSE Put(results_store, task_id, ProcessingEntry)
    /\ UNCHANGED <<now, threads, files, call, ret>>

\* GET /api/status/<task_id>: the handler only reads
ApiStatus(task_id) ==
    /\ api_status(task_id).code \in {200, 404}
    /\ UNCHANGED <<now, results_store, threads, files, call, ret>>

\* GET /api/download/<task_id>: the handler only reads
ApiDownload(task_id) ==
    /\ api_download(task_id).code \in {200, 202, 404}
    /\ UNCHANGED <<now, results_store, threads, files, call, ret>>

\* a second of wall-clock time passes
Tick ==
    /\ now < StartTime + MaxTicks
    /\ now' = now + 1
    /\ UNCHANGED <<results_store, threads, files, call, ret>>

----
(* The running service: any number of submissions up to MaxSubmits, the    *)
(* clock, the readers and the background threads.  What a page holds never *)
(* reaches results_store (an entry holds a status, a path or a reason), so *)
(* here every scrape returns the same page; the scrapes that fail are      *)
(* those of SearchSpec below.                                              *)

\* the form texts posted: a blank one and a one-term one
FormInputs == { <<" ", "\n">>, <<" ", "a", "\n">> }

\* a listing card whose text carries a price
PricedCard == <<"x", " ", "1", "2", " ", "toman">>

\* what a scrape does while the service runs: it returns a page
Scrapes == { [kind |-> "text", status |-> 200, html |-> <<PricedCard>>] }

\* the task ids a client asks about: those of the clock values, and another
RequestIds == {IntToStr(StartTime + k) : k \in 0..MaxTicks} \cup {<<"x">>}

NoCall == [fn |-> "none", arg |-> <<>>]
NotCalled == [kind |-> "NotCalled"]

Init ==
    /\ now = StartTime
    /\ results_store = <<>>
    /\ threads = <<>>
    /\ files = {}
    /\ call = NoCall
    /\ ret = NotCalled

\* a POST of the form, while the model admits another background thread
Submit(form_terms) ==
    /\ Len(threads) < MaxSubmits
    /\ Index(form_terms)

Next ==
    \/ \E form_terms \in FormInputs : Submit(form_terms)
    \/ \E task_id \in RequestIds : Result(task_id)
    \/ \E task_id \in RequestIds : ApiStatus(task_id)
    \/ \E task_id \in RequestIds : ApiDownload(task_id)
    \/ Tick
    \/ \E t \in 1..MaxSubmits : BeginTerm(t)
    \/ \E t \in 1..MaxSubmits, s \in 1..NumSources, scraped \in Scrapes :
           FetchOne(t, s, scraped)
    \/ \E t \in 1..MaxSubmits : Gather(t)
    \/ \E t \in 1..MaxSubmits, raises \in BOOLEAN : SaveExcel(t, raises)
    \/ \E t \in 1..MaxSubmits : StoreResult(t)

Spec == Init /\ [][Next]_vars

----
(* One batch, searched on a web whose sources can fail: a single           *)
(* submission of up to MaxTerms terms, and its background thread.          *)

\* the k-th term of a sample batch
SampleTerm(k) == <<"t", " ">> \o IntToStr(k)

RECURSIVE BatchForm(_)
\* a form text holding n terms, with blanks around them and empty lines
BatchForm(n) ==
    IF n = 0 THEN <<>>
    ELSE BatchForm(n - 1) \o <<" ">> \o SampleTerm(n) \o <<"\n", "\n">>

SearchInputs == {BatchForm(n) : n \in 1..MaxTerms}

\* a card without a price, a card priced in rials and a card whose price
\* literal is a lone thousands separator
UnpricedCard == <<"x", " ", "x">>
RialCard == <<"U+06F5", "0", " ", "rial">>
CommaCard == <<",", "toman">>

\* what a scrape can do: the request errors or times out, or a page comes
\* back, with whatever HTTP status
SearchScrapes ==
    { [kind |-> "raise", exc |-> "ClientError"],
      [kind |-> "raise", exc |-> "TimeoutError"],
      [kind |-> "text", status |-> 200, html |-> <<PricedCard, UnpricedCard, RialCard>>],
      [kind |-> "text", status |-> 404, html |-> <<PricedCard, UnpricedCard, RialCard>>],
      [kind |-> "text", status |-> 200, html |-> <<PricedCard, CommaCard>>] }

\* the one POST of the form
SubmitBatch(form_terms) ==
    /\ threads = <<>>
    /\ Index(form_terms)

SearchNext ==
    \/ \E form_terms \in SearchInputs : SubmitBatch(form_terms)
    \/ BeginTerm(1)
    \/ \E s \in 1..NumSources, scraped \in SearchScrapes : FetchOne(1, s, scraped)
    \/ Gather(1)
    \/ \E raises \in BOOLEAN : SaveExcel(1, raises)
    \/ StoreResult(1)

SearchSpec == Init /\ [][SearchNext]_vars

\* The background thread is a daemon thread the operating system keeps
\* scheduling, and every request of a scrape ends, by its 15 s timeout at the
\* latest: each step of the thread that can be taken is eventually taken.
SearchFairness ==
    /\ WF_vars(BeginTerm(1))
    /\ WF_vars(\E s \in 1..NumSources, scraped \in SearchScrapes : FetchOne(1, s, scraped))
    /\ WF_vars(Gather(1))
    /\ WF_vars(\E raises \in BOOLEAN : SaveExcel(1, raises))
    /\ WF_vars(StoreResult(1))

FairSearchSpec == SearchSpec /\ SearchFairness

----
(* Direct calls of the pure methods *)

\* the characters of the texts handed to extract
TextChars == {"1", "U+06F2", ",", " ", "toman", "rial", "$", "dirham", "x"}

ExtractInit ==
    /\ now = StartTime
    /\ results_store = <<>>
    /\ threads = <<>>
    /\ files = {}
    /\ call \in {[fn |-> "extract", arg |-> text] : text \in SeqsUpTo(TextChars, MaxTextLen)}
    /\ ret = NotCalled

\* PriceExtractor().extract(call.arg)
CallExtract ==
    /\ call.fn = "extract"
    /\ ret = NotCalled
    /\ ret' = extract(call.arg)
    /\ UNCHANGED <<now, results_store, threads, files, call>>

ExtractSpec == ExtractInit /\ [][CallExtract]_vars

\* the prices of the products handed to Analyzer.run
Prices == {10, 20, 30, 25}

\* a product dict with the given price
SampleProduct(price) ==
    [name |-> <<"x">>, price |-> price, original_currency |-> "toman",
     website |-> <<"torob.ir">>, country |-> "Iran", url |-> <<"torob.ir">>]

AnalyzerInit ==
    /\ now = StartTime
    /\ results_store = <<>>
    /\ threads = <<>>
    /\ files = {}
    /\ call \in {[fn |-> "run", arg |-> [k \in 1..Len(ps) |-> SampleProduct(ps[k])]] :
                    ps \in SeqsUpTo(Prices, MaxProducts)}
    /\ ret = NotCalled

\* Analyzer().run(call.arg)
CallRun ==
    /\ call.fn = "run"
    /\ ret = NotCalled
    /\ ret' = run(call.arg)
    /\ UNCHANGED <<now, results_store, threads, files, call>>

AnalyzerSpec == AnalyzerInit /\ [][CallRun]_vars

----
(* The task registry *)

\* the task ids handed out so far, one per background thread started
SubmittedIds == {threads[t].task_id : t \in ThreadIds}

Terminal == {"done", "failed"}

\* C1: once the entry of a task id is done or failed, no step changes it
\* again: the entry stays in the registry and stays what it is, so it never
\* returns to processing and is written by one runner only.
C1_TerminalEntryNeverChanges ==
    [][\A id \in DOMAIN results_store :
           results_store[id].status \in Terminal
               => /\ id \in DOMAIN results_store'
                  /\ results_store'[id] = results_store[id]]_vars

\* C2: any two distinct submissions received different task ids, and the
\* registry holds one entry for each submission.
C2_TaskIdsUnique ==
    /\ \A t1, t2 \in ThreadIds : t1 # t2 => threads[t1].task_id # threads[t2].task_id
    /\ Cardinality(DOMAIN results_store) = Len(threads)

\* C3: the status a poll returns for a task in the registry is the status of
\* its entry: processing until the runner has written, then done or failed.
C3_StatusPollReportsEntryStatus ==
    \A id \in RequestIds :
        id \in DOMAIN results_store
            => api_status(id).body.status = results_store[id].status

\* C4: under fair scheduling of the background thread, a task whose entry is
\* processing eventually has an entry that is done or failed, whatever the
\* scrapes do and whether or not the export raises.
C4_ProcessingLeadsToTerminal ==
    \A id \in RequestIds :
        (id \in DOMAIN results_store /\ results_store[id].status = "processing")
            ~> (id \in DOMAIN results_store /\ results_store[id].status \in Terminal)

\* a task has ended failed because its export raised, its thread at its end
C4_Witness ==
    /\ Len(threads) = 1
    /\ threads[1].pc = "finished"
    /\ Len(threads[1].terms) = MaxTerms
    /\ results_store[threads[1].task_id].status = "failed"

\* C5: a status poll answers not_found exactly for the task ids that were
\* never handed out by a submission.
C5_NotFoundIffNeverSubmitted ==
    \A id \in RequestIds :
        (api_status(id).body.status = "not_found") <=> (id \notin SubmittedIds)

\* two tasks were submitted in different seconds and have ended; both are
\* still found, and the id nobody submitted is not
C5_Witness ==
    /\ Len(threads) = 2
    /\ threads[1].task_id # threads[2].task_id
    /\ \A t \in ThreadIds : /\ threads[t].pc = "finished"
                            /\ api_status(threads[t].task_id).code = 200
    /\ api_status(<<"x">>).code = 404

\* an entry holds the Report: the summary and results the result page reads,
\* or a field holding them
HoldsReport(entry) ==
    \/ {"summary", "results"} \subseteq DOMAIN entry
    \/ "report" \in DOMAIN entry
    \/ "result" \in DOMAIN entry

\* C6: a done entry has the Report attached and a failed entry has a reason.
C6_FinishedEntryCarriesOutcome ==
    \A id \in DOMAIN results_store :
        /\ results_store[id].status = "done" => HoldsReport(results_store[id])
        /\ results_store[id].status = "failed" => "reason" \in DOMAIN results_store[id]

----
(* The search orchestrator *)

\* C7: the report built for a batch of N terms holds exactly N entries, the
\* k-th being the entry of the k-th term, whatever the order in which the
\* fetches of each term ended.
C7_ReportFollowsTermOrder ==
    \A t \in ThreadIds :
        threads[t].pc = "export"
            => /\ Len(threads[t].report.results) = Len(threads[t].terms)
               /\ \A k \in 1..Len(threads[t].terms) :
                      threads[t].report.results[k].search_term = threads[t].terms[k]

\* a report of at least two terms has been built, the first term having
\* found nothing and the second something
C7_Witness ==
    /\ Len(threads) = 1
    /\ threads[1].pc = "export"
    /\ Len(threads[1].terms) >= 2
    /\ threads[1].report.results[1].products = <<>>
    /\ threads[1].report.results[2].products # <<>>

\* the products of the sources that did not fail, in source order
SuccessfulProducts(tasks) ==
    Concat([s \in 1..Len(tasks) |->
               IF tasks[s].error THEN <<>> ELSE tasks[s].products])

Websites(products) == {products[k].website : k \in 1..Len(products)}

----
(* The analyzer *)

\* the prices of the products a call of run was given
CallPrices == [k \in 1..Len(call.arg) |-> call.arg[k].price]

\* a fraction is the median of the prices: at least half of them are no
\* greater and at least half of them are no smaller
IsMedian(frac, prices) ==
    /\ 2 * Cardinality({k \in 1..Len(prices) : prices[k] * frac.den <= frac.num})
           >= Len(prices)
    /\ 2 * Cardinality({k \in 1..Len(prices) : prices[k] * frac.den >= frac.num})
           >= Len(prices)

\* C9: the aggregate run returns has the number of products as its count;
\* for no products it holds the count 0 and nothing else; for some products
\* it holds their minimum, maximum, mean and median; for the prices
\* 10, 20, 30 these are 3, 10, 30, 20 and 20.
C9_AggregateOfPrices ==
    ret # NotCalled =>
        /\ ret.total = Len(CallPrices)
        /\ CallPrices = <<>> => DOMAIN ret = {"total"}
        /\ CallPrices # <<>> =>
               /\ DOMAIN ret = {"total", "min", "max", "mean", "median"}
               /\ \E k \in 1..Len(CallPrices) : ret.min = CallPrices[k]
               /\ \A k \in 1..Len(CallPrices) : ret.min <= CallPrices[k]
               /\ \E k \in 1..Len(CallPrices) : ret.max = CallPrices[k]
               /\ \A k \in 1..Len(CallPrices) : ret.max >= CallPrices[k]
               /\ ret.mean.den > 0
               /\ ret.mean.num * Len(CallPrices) = SumSeq(CallPrices) * ret.mean.den
               /\ ret.median.den > 0
               /\ IsMedian(ret.median, CallPrices)
        /\ CallPrices = <<10, 20, 30>> =>
               /\ ret.total = 3 /\ ret.min = 10 /\ ret.max = 30
               /\ ret.mean.num = 20 * ret.mean.den
               /\ ret.median.num = 20 * ret.median.den

\* run has returned the aggregate of the prices 10, 20, 30
C9_Witness ==
    /\ call.fn = "run"
    /\ CallPrices = <<10, 20, 30>>
    /\ ret # NotCalled
    /\ ret.total = 3

----
(* The price extractor *)

\* the currencies in the order the claim declares them
CurrencyOrder == <<"toman", "rial", "dollar", "dirham">>

\* the fixed rate of each currency, in tenths of a toman
FixedRate == [toman |-> 10, rial |-> 1, dollar |-> 550000, dirham |-> 150000]

\* the marker of a currency stands in the text with a number: a digit or a
\* comma right before the currency word, one blank at most between them, or
\* right after the dollar sign
MarkerMatches(text, curr) ==
    IF curr = "dollar"
    THEN \E j \in 1..(Len(text) - 1) : text[j] = "$" /\ IsNumChar(text[j + 1])
    ELSE \E j \in 2..Len(text) :
             /\ text[j] = curr
             /\ \/ IsNumChar(text[j - 1])
                \/ j > 2 /\ IsSpace(text[j - 1]) /\ IsNumChar(text[j - 2])

\* the first position of a character in a text, 0 if it is not there
FirstPos(text, c) ==
    IF \E j \in 1..Len(text) : text[j] = c
    THEN CHOOSE j \in 1..Len(text) : text[j] = c /\ \A i \in 1..(j - 1) : text[i] # c
    ELSE 0

\* the digits of group 1 of the first match of a currency's pattern
FirstMatchDigits(text, curr) ==
    Replace(Search(text,
                   patterns[CHOOSE n \in 1..Len(patterns) : patterns[n].curr = curr]).group1,
            ",", <<>>)

\* C10: extract settles the currency by declaration order, not by position:
\* the reading is in the earliest declared currency whose marker matches
\* anywhere in the text, its amount is the number of that currency's first
\* match and its value is the amount times that currency's fixed rate; a text
\* in which no marker matches gives None.  (A first match without any digit
\* has no amount; it is not covered here.)
C10_CurrencyByDeclarationOrder ==
    ret # NotCalled =>
        LET text == Translate(call.arg)
            matching == {n \in 1..Len(CurrencyOrder) : MarkerMatches(text, CurrencyOrder[n])}
        IN /\ matching = {} => ret = None
           /\ matching # {} =>
                  LET curr == CurrencyOrder[CHOOSE n \in matching :
                                                \A o \in matching : n <= o]
                      digits == FirstMatchDigits(text, curr)
                  IN digits # <<>> =>
                         /\ ret.kind = "reading"
                         /\ ret.currency = curr
                         /\ ret.original = DigitsValue(digits)
                         /\ ret.toman = DigitsValue(digits) * FixedRate[curr]

\* a text whose dollar price stands before its toman price was read in tomans
C10_Witness ==
    /\ call.fn = "extract"
    /\ ret # NotCalled
    /\ MarkerMatches(Translate(call.arg), "dollar")
    /\ MarkerMatches(Translate(call.arg), "toman")
    /\ FirstPos(call.arg, "$") < FirstPos(call.arg, "toman")
    /\ ret.kind = "reading"
    /\ ret.currency = "toman"

\* C11: extract never raises: every call returns a reading or None, and a
\* text whose matched literal holds no digit (only thousands separators)
\* gives None.
C11_ExtractNeverRaises ==
    ret # NotCalled => ret.kind \in {"reading", "None"}

----
(* The report files *)

\* a report file is deleted from the reports directory, outside the program:
\* what api_download's exists() test is there for
RemoveFile(path) ==
    /\ path \in files
    /\ files' = files \ {path}
    /\ UNCHANGED <<now, results_store, threads, call, ret>>

\* one submission, its background thread, the clock, the downloads and the
\* deletion of report files
DownloadNext ==
    \/ \E form_terms \in FormInputs \cup SearchInputs : SubmitBatch(form_terms)
    \/ \E task_id \in RequestIds : ApiDownload(task_id)
    \/ Tick
    \/ BeginTerm(1)
    \/ \E s \in 1..NumSources, scraped \in Scrapes : FetchOne(1, s, scraped)
    \/ Gather(1)
    \/ \E raises \in BOOLEAN : SaveExcel(1, raises)
    \/ StoreResult(1)
    \/ \E path \in files : RemoveFile(path)

DownloadSpec == Init /\ [][DownloadNext]_vars

\* C12: a download of an id that is not in the registry answers Not found;
\* of a done task it sends the report file if the file is there and answers
\* File not ready if it is not; of a processing or failed task it answers
\* File not ready and never sends a file.
C12_ArtifactRetrieval ==
    \A id \in RequestIds :
        /\ id \notin DOMAIN results_store
               => /\ api_download(id).code = 404
                  /\ api_download(id).body = [text |-> "Not found"]
        /\ id \in DOMAIN results_store
               => /\ api_download(id).code \in {200, 202}
                  /\ results_store[id].status = "done"
                         => IF results_store[id].excel_path \in files
                            THEN /\ api_download(id).code = 200
                                 /\ api_download(id).body
                                        = [file |-> results_store[id].excel_path]
                            ELSE /\ api_download(id).code = 202
                                 /\ api_download(id).body = [text |-> "File not ready"]
                  /\ results_store[id].status \in {"processing", "failed"}
                         => /\ api_download(id).code = 202
                            /\ api_download(id).body = [text |-> "File not ready"]

\* a task is done and its report file has been deleted: its download answers
\* File not ready, that of an unknown id Not found
C12_Witness ==
    /\ Len(threads) = 1
    /\ threads[1].pc = "finished"
    /\ results_store[threads[1].task_id].status = "done"
    /\ results_store[threads[1].task_id].excel_path \notin files
    /\ api_download(threads[1].task_id).code = 202
    /\ api_download(<<"x">>).code = 404

----
(* The background runner *)

\* C13: an entry names a report file exactly when its status is done.  An
\* entry becomes done only by the write of a thread whose search went through
\* all its terms and whose export returned, and it then names the file the
\* export wrote; an entry becomes failed only by the write of a thread whose
\* search raised, and it then holds the reason and no file; either write ends
\* the thread, so no exception leaves run_in_thread.
C13_DoneIffSearchAndExportReturned ==
    /\ [](\A id \in DOMAIN results_store :
              ("excel_path" \in DOMAIN results_store[id])
                  <=> (results_store[id].status = "done"))
    /\ [][\A id \in DOMAIN results_store' :
              (/\ results_store'[id].status \in Terminal
               /\ \/ id \notin DOMAIN results_store
                  \/ results_store'[id] # results_store[id])
                  => \E t \in ThreadIds :
                         /\ threads[t].task_id = id
                         /\ threads[t].pc \in {"returned", "raised"}
                         /\ threads'[t].pc = "finished"
                         /\ IF threads[t].pc = "returned"
                            THEN /\ threads[t].i = Len(threads[t].terms) + 1
                                 /\ threads[t].out.path \in files
                                 /\ results_store'[id]
                                        = [status |-> "done",
                                           excel_path |-> threads[t].out.path]
                            ELSE results_store'[id]
                                     = [status |-> "failed",
                                        reason |-> threads[t].out.reason]]_vars

\* one task has ended done and names its report file, another has ended
\* failed because its export raised and names none
C13_Witness ==
    /\ Len(threads) = 2
    /\ threads[1].task_id # threads[2].task_id
    /\ \A t \in ThreadIds : threads[t].pc = "finished"
    /\ results_store[threads[1].task_id].status = "done"
    /\ results_store[threads[1].task_id].excel_path \in files
    /\ results_store[threads[2].task_id] = [status |-> "failed", reason |-> "ExportError"]

----
(* The products of a term *)

\* the source sites in the order the claim declares them
DeclaredSites == << <<"torob.ir">>, <<"divar.ir">>, <<"www.amazon.com">> >>

\* the place of a product's website in DeclaredSites
SiteIndex(p) == CHOOSE n \in 1..Len(DeclaredSites) : DeclaredSites[n] = p.website

\* the products of a list that come from the n-th declared site
OfSite(products, n) == SelectSeq(products, LAMBDA p : p.website = DeclaredSites[n])

\* C14: the products appended for a term are those of torob, then those of
\* divar, then those of amazon, each site's in the order its fetch returned
\* them, which is the order of the cards on the page (the toman card of a page
\* stands before its rial card), whatever the order the three fetches ended in.
C14_ProductsInSourceThenFragmentOrder ==
    [][\A t \in ThreadIds :
           (threads[t].pc = "gather" /\ threads'[t].pc # "gather")
               => LET products == threads'[t].all_results[threads[t].i].products IN
                  /\ \A a, b \in 1..Len(products) :
                         a < b => SiteIndex(products[a]) <= SiteIndex(products[b])
                  /\ \A n \in 1..Len(DeclaredSites) :
                         OfSite(products, n) = threads[t].tasks[n].products
                  /\ \A a, b \in 1..Len(products) :
                         (/\ a < b
                          /\ products[a].website = products[b].website)
                             => ~(/\ products[a].name = RialCard
                                  /\ products[b].name = PricedCard)]_vars

\* a term got six products, two of each site
C14_Witness ==
    /\ Len(threads) = 1
    /\ threads[1].pc \in {"loop", "export"}
    /\ Len(threads[1].all_results) >= 1
    /\ Len(threads[1].all_results[1].products) = 6
    /\ threads[1].all_results[1].products[1].website = <<"torob.ir">>
    /\ threads[1].all_results[1].products[2].name = RialCard
    /\ threads[1].all_results[1].products[6].website = <<"www.amazon.com">>

----
(* The order of the terms *)

\* C15: the terms of a batch are searched one after the other.  A fetch ends
\* only for the current term i, the results of the terms 1..i-1 being
\* appended already and nothing later; a term's result is appended only when
\* all of its fetches have ended, and it is then the result of that term with
\* the aggregate of its products; between two terms no fetch is in flight.
C15_TermsSequentialWithBarrier ==
    /\ [](\A t \in ThreadIds :
              /\ threads[t].pc \in {"loop", "gather"}
                     => /\ Len(threads[t].all_results) = threads[t].i - 1
                        /\ \A k \in 1..Len(threads[t].all_results) :
                               threads[t].all_results[k].search_term = threads[t].terms[k]
              /\ threads[t].pc = "gather" => Len(threads[t].tasks) = NumSources
              /\ threads[t].pc # "gather" => threads[t].tasks = <<>>)
    /\ [][\A t \in ThreadIds :
              /\ (/\ threads[t].pc = "gather"
                  /\ threads'[t].pc = "gather"
                  /\ threads'[t].tasks # threads[t].tasks)
                     => /\ threads'[t].i = threads[t].i
                        /\ threads'[t].all_results = threads[t].all_results
                        /\ \A s \in 1..NumSources :
                               threads'[t].tasks[s] # Pending
                                   => \A k \in 1..Len(threads'[t].tasks[s].products) :
                                          threads'[t].tasks[s].products[k].url
                                              = UrlsOf(threads[t].terms[threads[t].i])[s]
              /\ (/\ threads'[t].all_results # threads[t].all_results
                  /\ threads'[t].pc \notin {"returned", "raised"})
                     => /\ threads[t].pc = "gather"
                        /\ \A s \in 1..NumSources : threads[t].tasks[s] # Pending
                        /\ threads'[t].i = threads[t].i + 1
                        /\ Len(threads'[t].all_results) = threads[t].i
                        /\ SubSeq(threads'[t].all_results, 1, threads[t].i - 1)
                               = threads[t].all_results
                        /\ threads'[t].all_results[threads[t].i].search_term
                               = threads[t].terms[threads[t].i]
                        /\ threads'[t].all_results[threads[t].i].analysis
                               = run(threads'[t].all_results[threads[t].i].products)]_vars

\* the first term's result is appended and the second term's fetches are in
\* flight, one of them ended
C15_Witness ==
    /\ Len(threads) = 1
    /\ threads[1].pc = "gather"
    /\ threads[1].i = 2
    /\ Len(threads[1].all_results) = 1
    /\ threads[1].tasks[1] = Pending
    /\ threads[1].tasks[3] # Pending

----
(* Direct calls of WebRobot._fetch_one *)

\* the most cards a page of these calls holds: one more than are looked at
MaxPageCards == 6

\* the cards a page is made of
Cards == {PricedCard, UnpricedCard, RialCard, CommaCard}

\* what scraper.scrape(url) does in these calls: it raises, or it returns a
\* page of any cards with a success or a non-success status
FetchScrapes ==
    { [kind |-> "raise", exc |-> e] : e \in {"ClientError", "TimeoutError"} }
    \cup { [kind |-> "text", status |-> st, html |-> cards] :
               st \in {200, 404}, cards \in SeqsUpTo(Cards, MaxPageCards) }

FetchInit ==
    /\ now = StartTime
    /\ results_store = <<>>
    /\ threads = <<>>
    /\ files = {}
    /\ call \in {[fn |-> "fetch_one",
                  arg |-> [url |-> UrlsOf(SampleTerm(1))[1], scraped |-> scraped]] :
                    scraped \in FetchScrapes}
    /\ ret = NotCalled

\* WebRobot()._fetch_one(call.arg.url, term), the scrape doing call.arg.scraped
CallFetchOne ==
    /\ call.fn = "fetch_one"
    /\ ret = NotCalled
    /\ ret' = fetch_one(call.arg.url, call.arg.scraped)
    /\ UNCHANGED <<now, results_store, threads, files, call>>

FetchSpec == FetchInit /\ [][CallFetchOne]_vars

\* the cards of a page that the parser looks at and that carry a price
PricedFragments(html) ==
    SelectSeq(Take(html, MaxCards), LAMBDA card : extract(card).kind = "reading")

\* C16: of a page fetched with success the parser returns one product for
\* each of the first 5 cards that carries a price, in the order of the cards,
\* with that card's text and price; a card without a price is left out alone
\* and takes no other card's product with it; at most 5 products come back.
C16_OneProductPerPricedFragment ==
    (ret # NotCalled /\ call.arg.scraped.kind = "text" /\ call.arg.scraped.status = 200)
        => /\ Len(ret.products) <= 5
           /\ Len(ret.products) = Len(PricedFragments(call.arg.scraped.html))
           /\ \A k \in 1..Len(ret.products) :
                  /\ ret.products[k].name = PricedFragments(call.arg.scraped.html)[k]
                  /\ ret.products[k].price
                         = extract(PricedFragments(call.arg.scraped.html)[k]).toman

\* C17: a fetch whose request errors, times out or is answered with a
\* non-success status contributes no product: the body of such an answer is
\* not parsed, and a timeout ends as any other error does.
C17_FailedFetchContributesNothing ==
    (/\ ret # NotCalled
     /\ \/ call.arg.scraped.kind = "raise"
        \/ call.arg.scraped.status \notin 200..299)
        => ret.products = <<>>

----
(* The entries readers see *)

\* an entry is whole: it is a processing entry, a done entry with the path of
\* its report file, or a failed entry with its reason, and holds nothing else
CompleteEntry(entry) ==
    \/ /\ DOMAIN entry = {"status"}
       /\ entry.status = "processing"
    \/ /\ DOMAIN entry = {"status", "excel_path"}
       /\ entry.status = "done"
       /\ entry.excel_path # <<>>
    \/ /\ DOMAIN entry = {"status", "reason"}
       /\ entry.status = "failed"

\* C18: in every state, under every interleaving of submissions, threads and
\* readers, each entry of the registry is whole, and so is the entry a status
\* poll or a result page hands out; a step writes one entry at most, and puts
\* a whole entry in its place.
C18_ReadersSeeWholeEntries ==
    /\ [](\A id \in DOMAIN results_store : CompleteEntry(results_store[id]))
    /\ [](\A id \in RequestIds :
              id \in DOMAIN results_store
                  => /\ CompleteEntry(api_status(id).body.report)
                     /\ result(id).code = 200
                            => CompleteEntry(result(id).body.report)
                     /\ result(id).code = 500
                            => result(id).body.error = results_store[id].reason)
    /\ [][/\ DOMAIN results_store \subseteq DOMAIN results_store'
          /\ Cardinality({id \in DOMAIN results_store' :
                             \/ id \notin DOMAIN results_store
                             \/ results_store'[id] # results_store[id]}) <= 1]_vars

\* a done entry was written over by a second submission of the same second:
\* the entry is a processing entry again and names no file
C18_Witness ==
    /\ Len(threads) = 2
    /\ threads[1].task_id = threads[2].task_id
    /\ threads[1].pc = "finished"
    /\ threads[2].pc = "gather"
    /\ files # {}
    /\ api_status(threads[2].task_id).body.report = [status |-> "processing"]

----
(* Direct calls of index() *)

\* the most lines a posted text holds: more than the cap on the terms
MaxLines == 12
\* the most lines of a posted text that are left blank
MaxGaps == 2

\* the k-th line of a posted text: blank if k is a gap, and else the k-th
\* sample term with blanks around it
Line(k, gaps) ==
    IF k \in gaps THEN (IF k % 2 = 0 THEN <<>> ELSE <<" ", " ">>)
    ELSE <<" ">> \o SampleTerm(k) \o <<" ">>

RECURSIVE Form(_, _)
\* a posted text of n lines
Form(n, gaps) ==
    IF n = 0 THEN <<>>
    ELSE Form(n - 1, gaps) \o (IF n > 1 THEN <<"\n">> ELSE <<>>) \o Line(n, gaps)

IndexInit ==
    /\ now = StartTime
    /\ results_store = <<>>
    /\ threads = <<>>
    /\ files = {}
    /\ call \in {[fn |-> "index", arg |-> Form(n, gaps), n |-> n, gaps |-> gaps] :
                    n \in 0..MaxLines,
                    gaps \in {g \in SUBSET (1..MaxLines) : Cardinality(g) <= MaxGaps}}
    /\ ret = NotCalled

\* the POST of the form with terms = call.arg
CallIndex ==
    /\ call.fn = "index"
    /\ SubmitBatch(call.arg)

IndexSpec == IndexInit /\ [][CallIndex]_vars

\* the lines of the posted text that are not gaps, as the terms they hold
WrittenTerms ==
    LET ks == SelectSeq([k \in 1..call.n |-> k], LAMBDA k : k \notin call.gaps)
    IN [j \in 1..Len(ks) |-> SampleTerm(ks[j])]

\* C19: the thread started for a posted text is handed the terms written on
\* its lines, without the blanks around them, in the order of the lines and
\* only the first 10 of them, so between 1 and 10 terms none of which is
\* empty; a text all of whose lines are blank starts no thread and gets no
\* entry.
C19_BatchIsFirstTenTrimmedLines ==
    /\ WrittenTerms = <<>> => (threads = <<>> /\ results_store = <<>>)
    /\ threads # <<>>
           => /\ Len(threads) = 1
              /\ DOMAIN results_store = {threads[1].task_id}
              /\ Len(threads[1].terms) \in 1..10
              /\ Len(threads[1].terms) = Min(Len(WrittenTerms), 10)
              /\ \A k \in 1..Len(threads[1].terms) :
                     /\ threads[1].terms[k] = WrittenTerms[k]
                     /\ threads[1].terms[k] # <<>>

\* a text of twelve lines, one of them blank, was posted: the thread got the
\* first ten of its eleven terms
C19_Witness ==
    /\ call.fn = "index"
    /\ call.n = 12
    /\ call.gaps = {3}
    /\ Len(threads) = 1
    /\ Len(threads[1].terms) = 10
    /\ threads[1].terms[3] = SampleTerm(4)

----
(* The readers *)

\* C20: a status poll, a result page and a download leave the registry as it
\* was, whatever the task id asked about: unknown, processing, done or
\* failed.  No entry is added, removed or changed.
C20_ReadsLeaveRegistryUnchanged ==
    [][\A id \in RequestIds :
           (ApiStatus(id) \/ Result(id) \/ ApiDownload(id))
               => /\ DOMAIN results_store' = DOMAIN results_store
                  /\ \A k \in DOMAIN results_store : results_store'[k] = results_store[k]]_vars

\* the registry holds a done task and a failed one, and a third id is
\* unknown: the polls of the three answer 200, 200 and 404, the result page of
\* the failed one 500, the download of the done one sends its file
C20_Witness ==
    /\ Len(threads) = 2
    /\ results_store[threads[1].task_id].status = "done"
    /\ threads[2].task_id # threads[1].task_id
    /\ results_store[threads[2].task_id].status = "failed"
    /\ api_status(threads[1].task_id).code = 200
    /\ result(threads[2].task_id).code = 500
    /\ api_download(threads[1].task_id).code = 200
    /\ api_status(<<"x">>).code = 404
    /\ result(<<"x">>).body.page = "WAITING_HTML"

====
